---- MODULE Spec2Model ----
(***************************************************************************)
(* Cycle-level model of the K7SATAPHY composer                             *)
(* (lib/sata/k7sataphy/__init__.py) and call-level model of the           *)
(* OpenPitonRV64 reset-address / finalize lifecycle                        *)
(* (litex/soc/cores/cpu/openpiton/core.py).                                *)
(*                                                                         *)
(* K7SATAPHY is synchronous hardware: a state holds the registers of the   *)
(* submodules at the start of a clock cycle, the values of the free input  *)
(* signals during that cycle, and the combinational signals the composer   *)
(* derives from them.  One Tick is one clock edge.                         *)
(*                                                                         *)
(* The composer (the two self.comb blocks) is translated from its source.  *)
(* The submodules it instantiates, K7SATAPHYHostCtrl / DeviceCtrl,         *)
(* K7SATAPHYTXConvert and K7SATAPHYRXConvert, are modelled from their      *)
(* specified contracts.  The datapath is scaled down: a Character carries  *)
(* a one-bit payload and a Word is CharsPerWord Characters.                *)
(*                                                                         *)
(* OpenPitonRV64 is modelled call by call.  Its assert statements are      *)
(* executed (the interpreter's default): a failing assert raises           *)
(* AssertionError before the statements that follow it.                    *)
(***************************************************************************)
EXTENDS Integers, Sequences, FiniteSets, TLC

\* ---------------------------------------------------------------- bounds
MaxRetries  == 1     \* OOB retries / align attempts before falling back
MaxWords    == 2     \* Words logged in the paired-instance experiment
MaxAddr     == 4     \* reset addresses 0..MaxAddr
MaxSpecials == 3     \* Instances added to self.specials

\* ------------------------------------------------------------- constants
CharsPerWord == 2    \* Characters per Word of the width converters
MinGrade     == 1    \* Gen1 / "SATA1"
MaxGrade     == 3    \* Gen3 / "SATA3"
DefaultSpeed == 3    \* default_speed="SATA3"
PrimAlign    == 0    \* payload of the ALIGN primitive pattern
PrimSync     == 1    \* payload of the SYNC / idle primitive pattern

Payload  == 0..1
Words    == [1..CharsPerWord -> Payload]
Grades   == MinGrade..MaxGrade
ZeroWord == [i \in 1..CharsPerWord |-> 0]
NoAddr   == -1
Addrs    == 0..MaxAddr

VARIABLES
    \* construction parameters of K7SATAPHY
    host, default_speed,
    \* ctrl (Speed Negotiator) registers
    ctrl_state, grade, retries, link_down,
    \* txconvert / rxconvert registers
    tx_buf, rx_buf, rx_valid, rx_word,
    \* free inputs of the current cycle
    sink_stb, sink_d, source_ack, gtx_rxdata, gtx_rxcharisk,
    \* combinational signals of the current cycle
    txsel, rxfwd, gtxw,
    \* history of the paired-instance experiment
    accepted, delivered,
    \* OpenPitonRV64 instance
    reset_address, specials, cpu_call, cpu_arg, cpu_err

cfgVars  == <<host, default_speed>>
ctrlVars == <<ctrl_state, grade, retries, link_down>>
dpVars   == <<tx_buf, rx_buf, rx_valid, rx_word>>
inVars   == <<sink_stb, sink_d, source_ack, gtx_rxdata, gtx_rxcharisk>>
combVars == <<txsel, rxfwd, gtxw>>
logVars  == <<accepted, delivered>>
phyVars  == <<cfgVars, ctrlVars, dpVars, inVars, combVars, logVars>>
cpuVars  == <<reset_address, specials, cpu_call, cpu_arg, cpu_err>>
vars     == <<phyVars, cpuVars>>

\* ------------------------------------------------ ctrl (Speed Negotiator)
CtrlStates == {"Reset", "DetectOOB", "NegotiateSpeed", "AlignWait", "Ready", "Failed"}
CtrlEvents == {"None", "TimerExpiry", "OOBResponse", "OOBTimeout", "TrainOK",
               "TrainFail", "AlignDone", "FramingError", "LossOfSignal", "Retrigger"}

\* Mutant of CtrlStep: a training failure restarts at the top grade.
CtrlStepRestartsAtTop(st, g, r, ld, e) ==
    LET same == [state |-> st, grade |-> g, retries |-> r, link_down |-> ld] IN
    CASE e = "Retrigger" ->
            [state |-> "Reset", grade |-> default_speed, retries |-> 0, link_down |-> FALSE]
      [] e = "LossOfSignal" /\ st # "Failed" ->
            [same EXCEPT !.state = "Reset", !.retries = 0]
      [] e = "TimerExpiry" /\ st = "Reset" ->
            [same EXCEPT !.state = "DetectOOB"]
      [] e = "OOBResponse" /\ st = "DetectOOB" ->
            [same EXCEPT !.state = "NegotiateSpeed", !.retries = 0, !.link_down = FALSE]
      [] e = "OOBTimeout" /\ st = "DetectOOB" /\ host ->
            IF r < MaxRetries
            THEN [same EXCEPT !.retries = r + 1]
            ELSE [same EXCEPT !.state = "Reset", !.retries = 0, !.link_down = TRUE]
      [] e = "TrainOK" /\ st = "NegotiateSpeed" ->
            [same EXCEPT !.state = "AlignWait"]
      [] e = "TrainFail" /\ st = "NegotiateSpeed" ->
            IF g > MinGrade
            THEN [same EXCEPT !.state = "DetectOOB", !.grade = MaxGrade]
            ELSE [same EXCEPT !.state = "Failed"]
      [] e = "AlignDone" /\ st = "AlignWait" ->
            [same EXCEPT !.state = "Ready", !.retries = 0]
      [] e = "FramingError" /\ st \in {"AlignWait", "Ready"} ->
            IF r < MaxRetries
            THEN [same EXCEPT !.retries = r + 1]
            ELSE [same EXCEPT !.state = "Reset", !.retries = 0]
      [] OTHER -> same

\* One clock edge of the negotiator under event e.
CtrlStep(st, g, r, ld, e) ==
    LET same == [state |-> st, grade |-> g, retries |-> r, link_down |-> ld] IN
    CASE e = "Retrigger" ->
            [state |-> "Reset", grade |-> default_speed, retries |-> 0, link_down |-> FALSE]
      [] e = "LossOfSignal" /\ st # "Failed" ->
            [same EXCEPT !.state = "Reset", !.retries = 0]
      [] e = "TimerExpiry" /\ st = "Reset" ->
            [same EXCEPT !.state = "DetectOOB"]
      [] e = "OOBResponse" /\ st = "DetectOOB" ->
            [same EXCEPT !.state = "NegotiateSpeed", !.retries = 0, !.link_down = FALSE]
      [] e = "OOBTimeout" /\ st = "DetectOOB" /\ host ->
            IF r < MaxRetries
            THEN [same EXCEPT !.retries = r + 1]
            ELSE [same EXCEPT !.state = "Reset", !.retries = 0, !.link_down = TRUE]
      [] e = "TrainOK" /\ st = "NegotiateSpeed" ->
            [same EXCEPT !.state = "AlignWait"]
      [] e = "TrainFail" /\ st = "NegotiateSpeed" ->
            IF g > MinGrade
            THEN [same EXCEPT !.state = "DetectOOB", !.grade = g - 1]
            ELSE [same EXCEPT !.state = "Failed"]
      [] e = "AlignDone" /\ st = "AlignWait" ->
            [same EXCEPT !.state = "Ready", !.retries = 0]
      [] e = "FramingError" /\ st \in {"AlignWait", "Ready"} ->
            IF r < MaxRetries
            THEN [same EXCEPT !.retries = r + 1]
            ELSE [same EXCEPT !.state = "Reset", !.retries = 0]
      [] OTHER -> same

\* The events that change the negotiator in its current state, and "None".
CtrlEventsNow ==
    {e \in CtrlEvents :
        \/ e = "None"
        \/ CtrlStep(ctrl_state, grade, retries, link_down, e)
              # CtrlStep(ctrl_state, grade, retries, link_down, "None")}

\* ctrl.ready, ctrl.txdata, ctrl.txcharisk in negotiator state st: ready only
\* in Ready; otherwise the primitive pattern of the state, flagged as control.
CtrlReady(st)     == st = "Ready"
CtrlTxData(st)    == IF st = "AlignWait"
                     THEN [i \in 1..CharsPerWord |-> PrimAlign]
                     ELSE [i \in 1..CharsPerWord |-> PrimSync]
CtrlTxCharisk(st) == 1

ctrl_ready     == CtrlReady(ctrl_state)
ctrl_txdata    == CtrlTxData(ctrl_state)
ctrl_txcharisk == CtrlTxCharisk(ctrl_state)

\* ------------------------------------------------------------- txconvert
\* txconvert.sink.ack: a new Word is refused until the current one is drained.
TxConvertAck(buf) == buf = <<>>

\* txconvert.txdata / txconvert.txcharisk for sink input s = [stb, data, charisk].
TxConvertOut(buf, s) ==
    IF s.stb /\ s.charisk # 0 THEN [data |-> s.data[1], charisk |-> 1]
    ELSE IF buf # <<>>        THEN [data |-> Head(buf), charisk |-> 0]
    ELSE IF s.stb             THEN [data |-> s.data[1], charisk |-> 0]
    ELSE                           [data |-> PrimSync, charisk |-> 1]

\* Characters of the current Word still to be sent after this cycle.
TxConvertNext(buf, s) ==
    IF s.stb /\ s.charisk # 0 THEN <<>>
    ELSE IF buf # <<>>        THEN Tail(buf)
    ELSE IF s.stb             THEN Tail(s.data)
    ELSE                           <<>>

\* ------------------------------------------------------------- rxconvert
\* Registers after one cycle with character (d, k) on the input and ack on
\* rxconvert.source.ack.
RxConvertNext(buf, valid, word, d, k, ack) ==
    IF valid /\ ~ack
    THEN [buf |-> buf, valid |-> valid, word |-> word]
    ELSE IF k # 0
    THEN [buf |-> <<>>, valid |-> FALSE, word |-> ZeroWord]
    ELSE LET b == Append(buf, d) IN
         IF Len(b) = CharsPerWord
         THEN [buf |-> <<>>, valid |-> TRUE, word |-> b]
         ELSE [buf |-> b, valid |-> FALSE, word |-> ZeroWord]

\* -------------------------------------------------------------- composer
\* self.comb, first block: transceiver <-> converters.
GtxWiring(rxd, rxk, txd, txk) ==
    [rxconvert_rxdata    |-> rxd,
     rxconvert_rxcharisk |-> rxk,
     gtx_txdata          |-> txd,
     gtx_txcharisk       |-> txk]

\* Mutant of TxSelect: the branches of the If are exchanged.
TxSelectSwapped(ready, sstb, sd, ctxd, ctxk, tack) ==
    IF ~ready
    THEN [stb |-> sstb, data |-> sd, charisk |-> 0, sink_ack |-> tack]
    ELSE [stb |-> TRUE, data |-> ctxd, charisk |-> ctxk, sink_ack |-> FALSE]

\* Mutant of TxSelect: the Else branch keeps the upstream data.
TxSelectLeaksSink(ready, sstb, sd, ctxd, ctxk, tack) ==
    IF ready
    THEN [stb |-> sstb, data |-> sd, charisk |-> 0, sink_ack |-> tack]
    ELSE [stb |-> TRUE, data |-> sd, charisk |-> ctxk, sink_ack |-> FALSE]

\* self.comb, second block, If(ctrl.ready, ...).Else(...).  A signal with no
\* assignment in the taken branch (sink.ack in the Else) keeps its reset
\* value 0.
TxSelect(ready, sstb, sd, ctxd, ctxk, tack) ==
    IF ready
    THEN [stb |-> sstb, data |-> sd, charisk |-> 0, sink_ack |-> tack]
    ELSE [stb |-> TRUE, data |-> ctxd, charisk |-> ctxk, sink_ack |-> FALSE]

\* Mutant of RxForward: ctrl.rxdata is fed only while a Word is valid.
RxForwardCtrlGated(rstb, rdata) ==
    [source_stb           |-> rstb,
     source_payload       |-> rdata,
     rxconvert_source_ack |-> TRUE,
     ctrl_rxdata          |-> IF rstb THEN rdata ELSE [i \in 1..CharsPerWord |-> 1]]

\* self.comb, second block, the four unconditional assignments.
RxForward(rstb, rdata) ==
    [source_stb           |-> rstb,
     source_payload       |-> rdata,
     rxconvert_source_ack |-> TRUE,
     ctrl_rxdata          |-> rdata]

\* The combinational signals of a cycle, from its registers and inputs.
TxSelNow(st, buf, stb, d) ==
    TxSelect(CtrlReady(st), stb, d, CtrlTxData(st), CtrlTxCharisk(st), TxConvertAck(buf))

GtxNow(buf, sel, rxd, rxk) ==
    LET o == TxConvertOut(buf, sel) IN GtxWiring(rxd, rxk, o.data, o.charisk)

CombOK ==
    /\ txsel = TxSelNow(ctrl_state, tx_buf, sink_stb, sink_d)
    /\ rxfwd = RxForward(rx_valid, rx_word)
    /\ gtxw = GtxNow(tx_buf, txsel, gtx_rxdata, gtx_rxcharisk)

\* ------------------------------------------------------------------ Init
\* Registers after reset: the negotiator in Reset at the configured grade,
\* the converters empty.
CtrlInit ==
    ctrl_state = "Reset" /\ grade = default_speed /\ retries = 0 /\ link_down = FALSE

ConvertInit ==
    tx_buf = <<>> /\ rx_buf = <<>> /\ rx_valid = FALSE /\ rx_word = ZeroWord

PhyIdle ==
    /\ CtrlInit
    /\ ConvertInit
    /\ sink_stb = FALSE /\ sink_d = ZeroWord /\ source_ack = FALSE
    /\ gtx_rxdata = PrimSync /\ gtx_rxcharisk = 1
    /\ txsel = TxSelNow(ctrl_state, tx_buf, sink_stb, sink_d)
    /\ rxfwd = RxForward(rx_valid, rx_word)
    /\ gtxw = GtxNow(tx_buf, txsel, gtx_rxdata, gtx_rxcharisk)
    /\ accepted = <<>> /\ delivered = <<>>

CpuNew ==
    /\ reset_address = NoAddr /\ specials = 0
    /\ cpu_call = "__init__" /\ cpu_arg = NoAddr /\ cpu_err = "none"

\* K7SATAPHY(pads, clk_freq, host, default_speed) for either role and any
\* starting grade, and a fresh OpenPitonRV64.
Init ==
    /\ host \in BOOLEAN
    /\ default_speed \in Grades
    /\ PhyIdle
    /\ CpuNew

\* K7SATAPHY(pads, clk_freq) with the constructor's defaults host=True,
\* default_speed="SATA3", and a fresh OpenPitonRV64.
InitDefault ==
    /\ host = TRUE
    /\ default_speed = DefaultSpeed
    /\ PhyIdle
    /\ CpuNew

\* ------------------------------------------------------------------ Tick
\* One clock edge: every register takes its next value from the signals of
\* the current cycle; the next cycle's inputs are (stb, d, ack, rxd, rxk).
Cycle(e, stb, d, ack, rxd, rxk) ==
    LET c == CtrlStep(ctrl_state, grade, retries, link_down, e)
        r == RxConvertNext(rx_buf, rx_valid, rx_word, gtxw.rxconvert_rxdata,
                           gtxw.rxconvert_rxcharisk, rxfwd.rxconvert_source_ack)
    IN  /\ ctrl_state' = c.state
        /\ grade' = c.grade
        /\ retries' = c.retries
        /\ link_down' = c.link_down
        /\ tx_buf' = TxConvertNext(tx_buf, txsel)
        /\ rx_buf' = r.buf
        /\ rx_valid' = r.valid
        /\ rx_word' = r.word
        /\ sink_stb' = stb
        /\ sink_d' = d
        /\ source_ack' = ack
        /\ gtx_rxdata' = rxd
        /\ gtx_rxcharisk' = rxk
        /\ txsel' = TxSelNow(ctrl_state', tx_buf', stb, d)
        /\ rxfwd' = RxForward(rx_valid', rx_word')
        /\ gtxw' = GtxNow(tx_buf', txsel', rxd, rxk)
        /\ UNCHANGED cfgVars

\* A cycle seen from the transmit side: the negotiator and the upstream
\* producer are free; the transceiver receives idle primitives and the
\* downstream consumer acknowledges.
TxTick ==
    /\ \E e \in CtrlEventsNow, stb \in BOOLEAN, d \in Words :
          Cycle(e, stb, d, TRUE, PrimSync, 1)
    /\ UNCHANGED <<logVars, cpuVars>>

\* A cycle seen from the receive side: the negotiator, the transceiver's
\* received character and the downstream consumer are free; there is no
\* upstream traffic.
RxTick ==
    /\ \E e \in CtrlEventsNow, ack \in BOOLEAN, rxd \in Payload, rxk \in {0, 1} :
          Cycle(e, FALSE, ZeroWord, ack, rxd, rxk)
    /\ UNCHANGED <<logVars, cpuVars>>

\* A cycle of instance A's transmit side wired to the paired instance's
\* receive side over a lossless channel with one cycle of latency: the
\* character A's transceiver sends in this cycle is the one the peer's
\* transceiver delivers in the next.  accepted logs the Words taken on A's
\* sink (stb and ack), delivered the Words valid on the peer's source.
PairTick ==
    /\ accepted' = IF sink_stb /\ txsel.sink_ack
                   THEN Append(accepted, sink_d) ELSE accepted
    /\ delivered' = IF rxfwd.source_stb /\ Len(delivered) < MaxWords
                    THEN Append(delivered, rxfwd.source_payload) ELSE delivered
    /\ \E e \in CtrlEventsNow, stb \in BOOLEAN, d \in Words :
          /\ (stb => Len(accepted') < MaxWords)
          /\ Cycle(e, stb, d, TRUE, gtxw.gtx_txdata, gtxw.gtx_txcharisk)
    /\ UNCHANGED cpuVars

\* ---------------------------------------------------------- OpenPitonRV64
\* Mutant of set_reset_address: the assert is missing.
set_reset_address_unchecked(a) ==
    /\ reset_address' = a
    /\ cpu_call' = "set_reset_address" /\ cpu_arg' = a /\ cpu_err' = "none"
    /\ UNCHANGED <<specials, phyVars>>

\* set_reset_address(reset_address): assert not hasattr(self, "reset_address"),
\* then store it.
set_reset_address(a) ==
    /\ IF reset_address # NoAddr
       THEN cpu_err' = "AssertionError" /\ UNCHANGED reset_address
       ELSE cpu_err' = "none" /\ reset_address' = a
    /\ cpu_call' = "set_reset_address" /\ cpu_arg' = a
    /\ UNCHANGED <<specials, phyVars>>

\* Mutant of do_finalize: the assert is missing.
do_finalize_unchecked ==
    /\ specials < MaxSpecials
    /\ specials' = specials + 1
    /\ cpu_call' = "do_finalize" /\ cpu_arg' = NoAddr /\ cpu_err' = "none"
    /\ UNCHANGED <<reset_address, phyVars>>

\* do_finalize(): assert hasattr(self, "reset_address"), then add the
\* "OpenPitonRV64" Instance to self.specials.
do_finalize ==
    /\ specials < MaxSpecials
    /\ IF reset_address = NoAddr
       THEN cpu_err' = "AssertionError" /\ UNCHANGED specials
       ELSE cpu_err' = "none" /\ specials' = specials + 1
    /\ cpu_call' = "do_finalize" /\ cpu_arg' = NoAddr
    /\ UNCHANGED <<reset_address, phyVars>>

\* -------------------------------------------------------- specifications
Next     == TxTick
NextRx   == RxTick
NextPair == PairTick
NextCpu  == (\E a \in Addrs : set_reset_address(a)) \/ do_finalize

Spec     == Init /\ [][Next]_vars
SpecRx   == Init /\ [][NextRx]_vars
SpecPair == InitDefault /\ [][NextPair]_vars
SpecCpu  == InitDefault /\ [][NextCpu]_vars


\* ------------------------------------------------------------------ claims
IsPrefix(p, q) == Len(p) <= Len(q) /\ \A i \in 1..Len(p) : p[i] = q[i]

\* C1: in every cycle, if ctrl.ready then txconvert.sink's (stb, data,
\* charisk) is (sink.stb, sink.d, 0) and sink.ack is txconvert.sink.ack;
\* otherwise it is (1, ctrl.txdata, ctrl.txcharisk).
C1_TxSelection ==
    /\ ctrl_ready =>
          /\ txsel.stb = sink_stb
          /\ txsel.data = sink_d
          /\ txsel.charisk = 0
          /\ txsel.sink_ack = TxConvertAck(tx_buf)
    /\ ~ctrl_ready =>
          /\ txsel.stb = TRUE
          /\ txsel.data = ctrl_txdata
          /\ txsel.charisk = ctrl_txcharisk

\* A ready cycle in which upstream offers a Word that differs from the
\* negotiator's pattern and the TX converter takes it.
C1_Witness ==
    ctrl_ready /\ sink_stb /\ txsel.sink_ack /\ sink_d # ctrl_txdata

\* C2: while ctrl.ready is false the PHY's word-stream source never asserts
\* valid, whatever the RX converter emits.
C2_RxGated == ~ctrl_ready => ~rxfwd.source_stb

\* C3: a Word that is valid on the source while the downstream consumer
\* withholds source.ack is still valid, unchanged, in the next cycle (the
\* RX converter stalls; no second Word is emitted without an
\* acknowledgment in between).
C3_NoLossUnderBackpressure ==
    [][(rxfwd.source_stb /\ ~source_ack)
         => (rxfwd.source_stb' /\ rxfwd.source_payload' = rxfwd.source_payload)]_vars

\* C4: ctrl.ready changes value only at a Word boundary, never while the TX
\* converter still holds characters of a Word it is fragmenting.
C4_GlitchFreeSwitch ==
    [][(ctrl_ready' # ctrl_ready) => (tx_buf' = <<>>)]_vars

\* C5: while not ready, sink.ack is never asserted and neither the TX
\* converter's input nor the character sent to the transceiver depends on
\* sink.stb / sink.d; while ready, the TX converter's input does not depend
\* on ctrl.txdata / ctrl.txcharisk.
C5_NonInterference ==
    /\ ~ctrl_ready =>
          /\ ~txsel.sink_ack
          /\ \A s \in BOOLEAN, d \in Words :
                LET alt == TxSelect(ctrl_ready, s, d, ctrl_txdata, ctrl_txcharisk,
                                    TxConvertAck(tx_buf))
                IN  /\ alt = txsel
                    /\ TxConvertOut(tx_buf, alt).data = gtxw.gtx_txdata
                    /\ TxConvertOut(tx_buf, alt).charisk = gtxw.gtx_txcharisk
                    /\ TxConvertNext(tx_buf, alt) = TxConvertNext(tx_buf, txsel)
    /\ ctrl_ready =>
          \A td \in Words, tk \in {0, 1} :
                TxSelect(ctrl_ready, sink_stb, sink_d, td, tk, TxConvertAck(tx_buf)) = txsel

\* A not-ready cycle in which upstream offers a Word that differs from the
\* negotiator's pattern.
C5_Witness ==
    ~ctrl_ready /\ sink_stb /\ sink_d # ctrl_txdata /\ TxConvertAck(tx_buf)

\* C6: the Words delivered on the paired instance's source are the Words
\* accepted on this instance's sink, in order: always a prefix of them, and
\* all of them once nothing is in flight.
InFlight ==
    \/ tx_buf # <<>> \/ rx_buf # <<>> \/ rx_valid
    \/ gtxw.gtx_txcharisk = 0 \/ gtx_rxcharisk = 0
    \/ (sink_stb /\ txsel.sink_ack)

C6_RoundTrip ==
    /\ IsPrefix(delivered, accepted)
    /\ ~InFlight => delivered = accepted

\* C7: in every cycle, ready or not, ctrl.rxdata is rxconvert.source.data
\* and rxconvert's character inputs are the transceiver's outputs.
C7_RxToNegotiator ==
    /\ rxfwd.ctrl_rxdata = rx_word
    /\ gtxw.rxconvert_rxdata = gtx_rxdata
    /\ gtxw.rxconvert_rxcharisk = gtx_rxcharisk

\* A not-ready cycle in which the RX converter presents a non-zero Word
\* assembled from received characters.
C7_Witness ==
    ~ctrl_ready /\ rx_valid /\ rx_word # ZeroWord /\ rxfwd.ctrl_rxdata = rx_word

\* C8: within a negotiation session the Speed Grade never rises (only a
\* re-trigger, which starts a new session in Reset at default_speed, may
\* raise it), and exactly one supported grade, no higher than the
\* configured default, is current.
C8_MonotonicFallback ==
    /\ [](grade \in Grades /\ grade <= default_speed)
    /\ [][\/ grade' <= grade
          \/ (ctrl_state' = "Reset" /\ grade' = default_speed /\ retries' = 0
                /\ ~link_down')]_vars

\* A second NegotiateSpeed attempt, at a grade below the configured default.
C8_Witness ==
    ctrl_state = "NegotiateSpeed" /\ grade < default_speed

\* C9 as claimed: set_reset_address called after a successful do_finalize
\* fails with a configuration error.
C9_FailsWithConfigurationError ==
    (cpu_call = "set_reset_address" /\ specials > 0) => cpu_err = "ConfigurationError"

\* C9 as amended: set_reset_address called after a successful do_finalize
\* fails with the AssertionError of its assert and leaves reset_address
\* unchanged.
C9_FailsWithAssertionError ==
    [][(cpu_call' = "set_reset_address" /\ specials > 0)
         => (cpu_err' = "AssertionError" /\ reset_address' = reset_address)]_vars

\* set_reset_address has just failed on a finalized instance whose reset
\* address differs from the one passed.
C9_Witness ==
    /\ cpu_call = "set_reset_address" /\ specials > 0
    /\ cpu_err = "AssertionError" /\ cpu_arg # reset_address

\* C10: reset_address is write-once (the first set_reset_address succeeds
\* and stores its argument, every later one fails and changes nothing);
\* do_finalize adds an Instance only when a reset address is set, and
\* otherwise fails and adds none.
C10_Lifecycle ==
    /\ [](specials > 0 => reset_address # NoAddr)
    /\ [][/\ (reset_address # NoAddr => reset_address' = reset_address)
          /\ (cpu_call' = "set_reset_address" =>
                IF reset_address = NoAddr
                THEN cpu_err' = "none" /\ reset_address' = cpu_arg'
                ELSE cpu_err' = "AssertionError")
          /\ (cpu_call' = "do_finalize" =>
                IF reset_address = NoAddr
                THEN cpu_err' = "AssertionError" /\ specials' = specials
                ELSE cpu_err' = "none" /\ specials' = specials + 1)
          /\ (specials' # specials => cpu_call' = "do_finalize")]_vars

\* do_finalize has just added a second Instance to an instance whose reset
\* address was set.
C10_Witness ==
    /\ cpu_call = "do_finalize" /\ cpu_err = "none"
    /\ specials > 1 /\ reset_address # NoAddr

====
